---------------------------- MODULE Spec2Model ----------------------------
(***************************************************************************)
(* Model of review2.py (image_caption_generator): the dispatcher           *)
(* generate_caption, the remote captioner caption_via_hf_api, the local    *)
(* captioner generate_caption_local with its memoized pipeline             *)
(* (ensure_local_pipeline, global _caption_pipeline), and the Flask        *)
(* handler index() that calls the dispatcher from request threads.         *)
(*                                                                         *)
(* Python values are tagged records; Python strings are TLA+ strings.      *)
(***************************************************************************)
EXTENDS Integers, Sequences, FiniteSets, TLC

VARIABLES
    have_requests,      \* _have_requests      (line 42, 62-66)
    have_transformers,  \* _have_transformers  (line 39, 44-48)
    have_torch,         \* _have_torch         (line 40, 50-54)
    env_token,          \* os.environ.get("HF_API_TOKEN")
    caption_pipeline,   \* global _caption_pipeline (line 130)
    init_count,         \* number of pipeline(...) objects built so far (line 144)
    call,               \* the last completed top-level call: inputs, result, effects
    norm_in,            \* input handed to a normalizer
    norm_out,           \* what the normalizer made of it
    pc,                 \* per request thread: position inside index()
    req,                \* per request thread: the form it posted
    seen,               \* per request thread: instance ensure_local_pipeline built
    got                 \* per request thread: instance ensure_local_pipeline returned

vars == <<have_requests, have_transformers, have_torch, env_token,
          caption_pipeline, init_count, call, norm_in, norm_out,
          pc, req, seen, got>>

envVars  == <<have_requests, have_transformers, have_torch, env_token>>
normVars == <<norm_in, norm_out>>
webVars  == <<pc, req, seen, got>>

-----------------------------------------------------------------------------
(* Bounds of the model *)

MaxFields  == 2   \* fields of a record in a backend reply
MaxItems   == 2   \* elements of a sequence in a backend reply
NumThreads == 2   \* request threads of the web server

(* Program constants *)

DefaultMaxLength == 40
PostTimeout      == 120
HttpOk           == 200

DefaultModel == "Salesforce/blip-image-captioning-base"

-----------------------------------------------------------------------------
(* Python values *)

None        == [kind |-> "None"]
PyStr(s)    == [kind |-> "str",  s |-> s]
PyInt(n)    == [kind |-> "int",  n |-> n]
PyDict(kvs) == [kind |-> "dict", kvs |-> kvs]   \* kvs: sequence of <<key, value>>, insertion order
PyList(xs)  == [kind |-> "list", xs |-> xs]

IsStr(x)  == x.kind = "str"
IsDict(x) == x.kind = "dict"
IsList(x) == x.kind = "list"

\* Python truthiness, as used by `or` and `not`
Truthy(x) ==
    CASE x.kind = "None" -> FALSE
      [] x.kind = "str"  -> x.s # ""
      [] x.kind = "int"  -> x.n # 0
      [] x.kind = "dict" -> Len(x.kvs) > 0
      [] x.kind = "list" -> Len(x.xs) > 0
      [] OTHER           -> TRUE

\* `key in d`
HasKey(d, key) == \E i \in 1..Len(d.kvs) : d.kvs[i][1] = key

\* d[key], for a key that is present
Lookup(d, key) == d.kvs[CHOOSE i \in 1..Len(d.kvs) : d.kvs[i][1] = key][2]

\* d.get(key)
DictGet(d, key) == IF HasKey(d, key) THEN Lookup(d, key) ELSE None

Whitespace == {" ", "\t", "\n", "\r", "\f"}

RECURSIVE LStrip(_)
LStrip(s) ==
    IF s = "" THEN ""
    ELSE IF Head(s) \in Whitespace THEN LStrip(Tail(s)) ELSE s

RECURSIVE RStrip(_)
RStrip(s) ==
    IF s = "" THEN ""
    ELSE IF SubSeq(s, Len(s), Len(s)) \in Whitespace
         THEN RStrip(SubSeq(s, 1, Len(s) - 1))
         ELSE s

\* str.strip()
Strip(s) == RStrip(LStrip(s))

\* repr() of a scalar
ReprScalar(x) ==
    CASE x.kind = "None" -> "None"
      [] x.kind = "str"  -> "'" \o x.s \o "'"
      [] x.kind = "int"  -> ToString(x.n)
      [] OTHER           -> "?"

RECURSIVE ReprFields(_, _)
ReprFields(kvs, i) ==
    IF i > Len(kvs) THEN ""
    ELSE (IF i > 1 THEN ", " ELSE "")
         \o "'" \o kvs[i][1] \o "': " \o ReprScalar(kvs[i][2])
         \o ReprFields(kvs, i + 1)

\* repr() of an element of a sequence: a scalar or a record of scalars
ReprItem(x) ==
    IF IsDict(x) THEN "{" \o ReprFields(x.kvs, 1) \o "}" ELSE ReprScalar(x)

RECURSIVE ReprItems(_, _)
ReprItems(xs, i) ==
    IF i > Len(xs) THEN ""
    ELSE (IF i > 1 THEN ", " ELSE "") \o ReprItem(xs[i]) \o ReprItems(xs, i + 1)

\* str(x)
Str(x) ==
    CASE x.kind = "str"  -> x.s
      [] x.kind = "list" -> "[" \o ReprItems(x.xs, 1) \o "]"
      [] OTHER           -> ReprItem(x)

\* " ".join(str(v) for v in d.values())
RECURSIVE JoinValues(_, _)
JoinValues(kvs, i) ==
    IF i > Len(kvs) THEN ""
    ELSE (IF i > 1 THEN " " ELSE "") \o Str(kvs[i][2]) \o JoinValues(kvs, i + 1)

-----------------------------------------------------------------------------
(* Outcomes of a call *)

Return(s) == [ok |-> TRUE, value |-> s]
Raise(exc, msg) == [ok |-> FALSE, exc |-> exc, msg |-> msg]

\* x.strip() on an arbitrary value: only str has the method
StripOf(x) == IF IsStr(x) THEN Return(Strip(x.s))
              ELSE Raise("AttributeError", "no attribute 'strip'")


-----------------------------------------------------------------------------
(* Remote captioner: caption_via_hf_api *)

KnownKeys == <<"generated_text", "caption", "text">>

HasKnownKey(d) == \E i \in 1..Len(KnownKeys) : HasKey(d, KnownKeys[i])

\* the first of KnownKeys that d holds: `for key in (...): if key in d`
FirstKnownKey(d) ==
    KnownKeys[CHOOSE i \in 1..Len(KnownKeys) :
                 /\ HasKey(d, KnownKeys[i])
                 /\ \A k \in 1..(i - 1) : ~HasKey(d, KnownKeys[k])]

\* lines 111-125: the caption made of the parsed reply j
NormalizeRemote(j) ==
    IF IsList(j) /\ Len(j.xs) > 0 /\ IsDict(j.xs[1])
    THEN IF HasKnownKey(j.xs[1])
         THEN StripOf(Lookup(j.xs[1], FirstKnownKey(j.xs[1])))
         ELSE Return(Strip(JoinValues(j.xs[1].kvs, 1)))
    ELSE IF IsDict(j)
    THEN IF HasKnownKey(j)
         THEN StripOf(Lookup(j, FirstKnownKey(j)))
         ELSE Return(Strip(Str(j)))
    ELSE Return(Str(j))

\* line 88: token = hf_token or os.environ.get("HF_API_TOKEN")
ResolveToken(hf_token) == IF Truthy(hf_token) THEN hf_token ELSE env_token

\* a credential check that only rejects an absent token
TokenMissingOnlyNone(token) == token = None

\* line 89: if not token
TokenMissing(token) == ~Truthy(token)

\* a status check that accepts every 2xx status
StatusIsErrorOutside2xx(status_code) == status_code \notin 200..299

\* line 106: if resp.status_code != 200
StatusIsError(status_code) == status_code # HttpOk

\* line 101: the generation parameters the function prepares
RequestParams(max_length) ==
    [options |-> [wait_for_model |-> TRUE],
     parameters |-> [max_new_tokens |-> max_length]]

\* line 103: the request as issued: requests.post(url, headers=headers,
\* files=files, params=None, data=None, timeout=120)
PostRequest(image, token, model, max_length) ==
    [url     |-> "https://api-inference.huggingface.co/models/" \o model,
     headers |-> [Authorization |-> "Bearer " \o token.s],
     files   |-> [inputs |-> image],
     params  |-> None,
     data    |-> None,
     timeout |-> PostTimeout]

\* what a call did besides returning: requests posted, files opened and closed
Effects(posts, opened, closed) ==
    [posts |-> posts, opened |-> opened, closed |-> closed]

NoEffects == Effects(<<>>, 0, 0)

\* lines 106-125, once the reply resp has arrived
HandleResponse(resp) ==
    IF StatusIsError(resp.status_code)
    THEN [ok |-> FALSE, exc |-> "RuntimeError", msg |-> "Hugging Face API error",
          status_code |-> resp.status_code, text |-> resp.text]
    ELSE IF resp.json.kind = "invalid"
    THEN Raise("JSONDecodeError", "resp.json()")
    ELSE NormalizeRemote(resp.json)

\* lines 81-125. net is what the network does with the POST: a reply, or an
\* exception raised by requests.post (net.kind = "exception").
CaptionViaHfApi(image, hf_token, model, max_length, net) ==
    LET token   == ResolveToken(hf_token)
        isPath  == image.kind = "path"
        opened  == IF isPath THEN 1 ELSE 0
        request == PostRequest(image, token, model, max_length)
    IN  IF ~have_requests
        THEN [res |-> Raise("RuntimeError", "requests library not installed"),
              eff |-> NoEffects]
        ELSE IF TokenMissing(token)
        THEN [res |-> Raise("RuntimeError", "Hugging Face API token not provided"),
              eff |-> NoEffects]
        ELSE IF isPath /\ ~image.exists
        THEN [res |-> Raise("FileNotFoundError", "open"), eff |-> NoEffects]
        ELSE IF net.kind = "exception"
        THEN [res |-> Raise("RequestException", "requests.post"),
              eff |-> Effects(<<request>>, opened, 0)]
        ELSE [res |-> HandleResponse(net),
              eff |-> Effects(<<request>>, opened, opened)]

-----------------------------------------------------------------------------
(* Local captioner: ensure_local_pipeline, generate_caption_local *)

\* a cache test that never finds the cached pipeline
PipelineCachedNever(p) == FALSE

\* line 133: if _caption_pipeline is not None
PipelineCached(p) == p # None

\* line 144: pipeline("image-to-text", model=model_name, device=device)
NewPipeline(model_name, n) == [kind |-> "pipeline", id |-> n, model |-> model_name]

\* lines 131-147, run without interruption. build says whether the
\* constructor pipeline(...) succeeds ("ok") or raises ("fail").
\* Yields the outcome and the new values of the global and of the counter.
EnsureLocalPipeline(model_name, build) ==
    IF PipelineCached(caption_pipeline)
    THEN [res |-> Return(caption_pipeline),
          pipeline |-> caption_pipeline, count |-> init_count]
    ELSE IF ~have_transformers
    THEN [res |-> Raise("RuntimeError", "transformers not installed"),
          pipeline |-> caption_pipeline, count |-> init_count]
    ELSE IF ~have_torch
    THEN [res |-> Raise("RuntimeError", "torch not installed"),
          pipeline |-> caption_pipeline, count |-> init_count]
    ELSE IF build = "fail"
    THEN [res |-> Raise("RuntimeError", "Failed to create pipeline"),
          pipeline |-> caption_pipeline, count |-> init_count]
    ELSE LET p == NewPipeline(model_name, init_count + 1)
         IN  [res |-> Return(p), pipeline |-> p, count |-> init_count + 1]

\* lines 158-163: the caption made of the pipeline's output, before the
\* except clause
LocalText(out) ==
    IF IsList(out) /\ Len(out.xs) > 0
    THEN LET txt == IF IsDict(out.xs[1])
                    THEN DictGet(out.xs[1], "generated_text")
                    ELSE PyStr(Str(out.xs[1]))
         IN  StripOf(IF Truthy(txt) THEN txt ELSE PyStr(""))
    ELSE Return(Str(out))

\* lines 156-165: any exception inside the try becomes a RuntimeError
NormalizeLocal(out) ==
    LET r == LocalText(out)
    IN  IF r.ok THEN r ELSE Raise("RuntimeError", "Model inference failed")

\* lines 149-165. run is what the pipeline does when invoked: its output, or
\* an exception (run.kind = "exception").
GenerateCaptionLocal(image, max_length, build, run) ==
    LET e == EnsureLocalPipeline(DefaultModel, build)
    IN  IF ~e.res.ok
        THEN [res |-> e.res, pipeline |-> e.pipeline, count |-> e.count,
              invoked |-> <<>>]
        ELSE [res |-> IF run.kind = "exception"
                      THEN Raise("RuntimeError", "Model inference failed")
                      ELSE NormalizeLocal(run),
              pipeline |-> e.pipeline, count |-> e.count,
              invoked |-> <<[pipe |-> e.res.value, inputs |-> image,
                             max_length |-> max_length, truncation |-> TRUE]>>]

-----------------------------------------------------------------------------
(* Dispatcher: generate_caption *)

\* a dispatcher that falls back to the other backend when the chosen one fails
GenerateCaptionWithFallback(image_path, use_api, hf_token, model_name, max_length, net, build, run) ==
    LET remote == CaptionViaHfApi(image_path, hf_token, model_name, max_length, net)
        local  == GenerateCaptionLocal(image_path, max_length, build, run)
        first  == IF use_api THEN remote.res ELSE local.res
        both   == ~first.ok
    IN  [res |-> IF ~both THEN first ELSE IF use_api THEN local.res ELSE remote.res,
         eff |-> IF use_api \/ both THEN remote.eff ELSE NoEffects,
         invoked |-> IF ~use_api \/ both THEN local.invoked ELSE <<>>,
         pipeline |-> IF ~use_api \/ both THEN local.pipeline ELSE caption_pipeline,
         count |-> IF ~use_api \/ both THEN local.count ELSE init_count]

\* lines 170-179. Yields the outcome, the effects of the remote path, the
\* pipeline invocations of the local path and the new values of the globals.
GenerateCaption(image_path, use_api, hf_token, model_name, max_length, net, build, run) ==
    IF use_api
    THEN LET r == CaptionViaHfApi(image_path, hf_token, model_name, max_length, net)
         IN  [res |-> r.res, eff |-> r.eff, invoked |-> <<>>,
              pipeline |-> caption_pipeline, count |-> init_count]
    ELSE LET r == GenerateCaptionLocal(image_path, max_length, build, run)
         IN  [res |-> r.res, eff |-> NoEffects, invoked |-> r.invoked,
              pipeline |-> r.pipeline, count |-> r.count]

-----------------------------------------------------------------------------
(* Inputs and the environment's answers *)

Paths    == {[kind |-> "path", exists |-> TRUE], [kind |-> "path", exists |-> FALSE]}
FileObj  == [kind |-> "fileobj"]
Tokens   == {None, PyStr(""), PyStr("hf_arg")}
EnvTokens == {None, PyStr(""), PyStr("hf_env")}
Models   == {DefaultModel, "nlpconnect/vit-gpt2-image-captioning"}
MaxLengths == {DefaultMaxLength, 20}

Invalid == [kind |-> "invalid"]   \* a body that is not JSON: resp.json() raises

Reply(status_code, text, json) ==
    [kind |-> "reply", status_code |-> status_code, text |-> text, json |-> json]

CaptionBody == PyList(<<PyDict(<< <<"generated_text", PyStr(" a dog ")>> >>)>>)
ErrorBody   == PyDict(<< <<"error", PyStr("loading")>> >>)

NetException == [kind |-> "exception"]

\* what the network does with a POST: requests.post raises, or a reply
\* arrives: its status, its raw text and what resp.json() makes of the text
Nets ==
    { NetException,
      Reply(HttpOk, "[{\"generated_text\": \" a dog \"}]", CaptionBody),
      Reply(HttpOk, "[{\"generated_text\": \" \"}]",
            PyList(<<PyDict(<< <<"generated_text", PyStr(" ")>> >>)>>)),
      Reply(HttpOk, "[{\"generated_text\": null}]",
            PyList(<<PyDict(<< <<"generated_text", None>> >>)>>)),
      Reply(HttpOk, "{\"error\": \"loading\"}", ErrorBody),
      Reply(HttpOk, "<html>", Invalid),
      Reply(201, "[{\"generated_text\": \" a dog \"}]", CaptionBody),
      Reply(503, "{\"error\": \"loading\"}", ErrorBody) }

Builds == {"ok", "fail"}

RunException == [kind |-> "exception"]

\* what the pipeline yields when invoked on an image it can read
Runs == { RunException,
          PyList(<<PyDict(<< <<"generated_text", PyStr(" a dog ")>> >>)>>),
          PyList(<<PyDict(<< <<"generated_text", PyStr("")>> >>)>>),
          PyList(<<PyDict(<< <<"text", PyStr("a dog")>> >>)>>),
          PyList(<<>>),
          PyStr(" a dog ") }

\* a path that names no file makes the pipeline raise
RunsOn(image) == IF image.kind = "path" /\ ~image.exists THEN {RunException} ELSE Runs

-----------------------------------------------------------------------------
(* Sequential calls of the three captioning functions *)

NoCall == [op |-> "none"]
NotNormalized == [by |-> "none"]

Init ==
    /\ have_requests \in BOOLEAN
    /\ have_transformers \in BOOLEAN
    /\ have_torch \in BOOLEAN
    /\ env_token \in EnvTokens
    /\ caption_pipeline = None
    /\ init_count = 0
    /\ call = NoCall
    /\ norm_in = None
    /\ norm_out = NotNormalized
    /\ pc = <<>>
    /\ req = <<>>
    /\ seen = <<>>
    /\ got = <<>>

\* the record kept of a completed call
CallRecord(op, image, use_api, hf_token, model_name, max_length, r, net, build, run) ==
    [op |-> op, image |-> image, use_api |-> use_api, hf_token |-> hf_token,
     model_name |-> model_name, max_length |-> max_length,
     res |-> r.res, eff |-> r.eff, invoked |-> r.invoked,
     before |-> caption_pipeline, built |-> r.count - init_count,
     reply |-> IF r.eff.posts # <<>> THEN net ELSE None,
     build |-> IF r.count # init_count \/ (~r.res.ok /\ r.res.msg = "Failed to create pipeline")
               THEN build ELSE "none",
     output |-> IF r.invoked # <<>> THEN run ELSE None]

GenerateCaptionCall ==
    \E image \in Paths, use_api \in BOOLEAN, hf_token \in Tokens,
       model_name \in Models, max_length \in MaxLengths :
        IF use_api
        THEN \E net \in Nets :
               LET r == GenerateCaption(image, use_api, hf_token, model_name,
                                        max_length, net, "ok", RunException)
               IN  /\ call' = CallRecord("generate_caption", image, use_api, hf_token,
                                         model_name, max_length, r, net, "ok", RunException)
                   /\ caption_pipeline' = r.pipeline
                   /\ init_count' = r.count
                   /\ UNCHANGED <<envVars, normVars, webVars>>
        ELSE \E build \in Builds, run \in RunsOn(image) :
               LET r == GenerateCaption(image, use_api, hf_token, model_name,
                                        max_length, NetException, build, run)
               IN  /\ call' = CallRecord("generate_caption", image, use_api, hf_token,
                                         model_name, max_length, r, NetException, build, run)
                   /\ caption_pipeline' = r.pipeline
                   /\ init_count' = r.count
                   /\ UNCHANGED <<envVars, normVars, webVars>>

CaptionViaHfApiCall ==
    \E image \in {FileObj}, hf_token \in Tokens,
       model_name \in Models, max_length \in MaxLengths, net \in Nets :
        LET c == CaptionViaHfApi(image, hf_token, model_name, max_length, net)
            r == [res |-> c.res, eff |-> c.eff, invoked |-> <<>>,
                  pipeline |-> caption_pipeline, count |-> init_count]
        IN  /\ call' = CallRecord("caption_via_hf_api", image, TRUE, hf_token,
                                  model_name, max_length, r, net, "ok", RunException)
            /\ UNCHANGED <<caption_pipeline, init_count, envVars, normVars, webVars>>

GenerateCaptionLocalCall ==
    \E image \in Paths, max_length \in MaxLengths, build \in Builds :
      \E run \in RunsOn(image) :
        LET c == GenerateCaptionLocal(image, max_length, build, run)
            r == [res |-> c.res, eff |-> NoEffects, invoked |-> c.invoked,
                  pipeline |-> c.pipeline, count |-> c.count]
        IN  /\ call' = CallRecord("generate_caption_local", image, FALSE, None,
                                  DefaultModel, max_length, r, NetException, build, run)
            /\ caption_pipeline' = r.pipeline
            /\ init_count' = r.count
            /\ UNCHANGED <<envVars, normVars, webVars>>

Next == GenerateCaptionCall \/ CaptionViaHfApiCall \/ GenerateCaptionLocalCall

Spec == Init /\ [][Next]_vars

-----------------------------------------------------------------------------
(* Properties of the sequential calls *)

Dispatched == call.op = "generate_caption"
RemoteCall == call.op = "caption_via_hf_api" \/ (Dispatched /\ call.use_api)
LocalCall  == call.op = "generate_caption_local" \/ (Dispatched /\ ~call.use_api)

Failed(msg) == ~call.res.ok /\ call.res.exc = "RuntimeError" /\ call.res.msg = msg

IsRemoteError(r) == ~r.ok /\ r.msg = "Hugging Face API error"

NoCredential == ~Truthy(call.hf_token) /\ ~Truthy(env_token)

\* C1: every call of generate_caption uses exactly one backend and never
\* falls back. With use_api true the pipeline is neither built nor invoked
\* nor changed; with use_api false no file is opened and no POST is issued,
\* also when transformers or torch are missing. A failure of the chosen
\* backend (missing library, missing credential, network exception, error
\* status, failed construction, failed inference) is the failure of the call.
C1_OneBackendNoFallback ==
    Dispatched =>
      /\ call.use_api =>
           /\ call.invoked = <<>>
           /\ call.built = 0
           /\ call.build = "none"
           /\ caption_pipeline = call.before
           /\ ~have_requests => Failed("requests library not installed")
           /\ (have_requests /\ NoCredential) =>
                  Failed("Hugging Face API token not provided")
           /\ call.reply = NetException => ~call.res.ok
           /\ (call.reply.kind = "reply" /\ call.reply.status_code = 503) =>
                  IsRemoteError(call.res)
      /\ ~call.use_api =>
           /\ call.eff = NoEffects
           /\ call.reply = None
           /\ (call.before = None /\ ~have_transformers) =>
                  Failed("transformers not installed")
           /\ (call.before = None /\ have_transformers /\ ~have_torch) =>
                  Failed("torch not installed")
           /\ call.build = "fail" => Failed("Failed to create pipeline")
           /\ call.output = RunException => Failed("Model inference failed")

\* C1 witness: a local call fails for want of transformers although the
\* remote backend was usable (requests present, credential in the environment)
C1_Witness ==
    /\ Dispatched /\ ~call.use_api
    /\ ~have_transformers /\ have_requests /\ Truthy(env_token)
    /\ Failed("transformers not installed")
    /\ call.eff.posts = <<>>

\* C2 (as claimed): a call that succeeds returns a non-empty caption
C2_NeverEmptyCaption ==
    (call.op # "none" /\ call.res.ok) => call.res.value # ""

\* C3 (as claimed): without a non-empty credential from the argument or the
\* environment, caption_via_hf_api fails with the configuration error, opens
\* no file and issues no POST
C3_MissingCredentialIsConfigError ==
    (RemoteCall /\ NoCredential) =>
        /\ Failed("Hugging Face API token not provided")
        /\ call.eff = NoEffects

\* C3 (amended): without a non-empty credential the call fails, opens no file
\* and issues no POST; the failure is the configuration error when the
\* requests library is present and the missing-library error when it is not.
\* Every POST issued carries a non-empty credential: the explicit one when it
\* is non-empty, else the environment's.
C3_MissingCredentialFailsBeforeNetwork ==
    RemoteCall =>
      /\ NoCredential =>
           /\ call.eff = NoEffects
           /\ have_requests => Failed("Hugging Face API token not provided")
           /\ ~have_requests => Failed("requests library not installed")
      /\ \A i \in 1..Len(call.eff.posts) :
           /\ ~NoCredential
           /\ call.eff.posts[i].headers.Authorization # "Bearer "
           /\ call.eff.posts[i].headers.Authorization =
                "Bearer " \o (IF Truthy(call.hf_token) THEN call.hf_token.s
                              ELSE env_token.s)

\* C3 witness: requests present, an image path, empty explicit token, no
\* environment token: the configuration error, nothing opened, nothing posted
C3_Witness ==
    /\ RemoteCall /\ have_requests /\ call.image.kind = "path" /\ call.image.exists
    /\ call.hf_token = PyStr("") /\ env_token = None
    /\ Failed("Hugging Face API token not provided")
    /\ call.eff.opened = 0 /\ call.eff.posts = <<>>

\* C5 (as claimed): once a reply has arrived, the call fails with the remote
\* error exactly when the status is outside 200..299
C5_RemoteErrorIffNot2xx ==
    (RemoteCall /\ call.reply.kind = "reply") =>
        (IsRemoteError(call.res) <=> call.reply.status_code \notin 200..299)

\* C5 (amended): the call fails with the remote error, carrying the status
\* code and the raw body, when and only when a reply arrived whose status is
\* not 200; then the body is not normalized. For status 200 the outcome is
\* that of parsing and normalizing the body.
C5_RemoteErrorIffNot200 ==
    RemoteCall =>
      /\ IsRemoteError(call.res) <=>
            (call.reply.kind = "reply" /\ call.reply.status_code # 200)
      /\ IsRemoteError(call.res) =>
            /\ call.res.status_code = call.reply.status_code
            /\ call.res.text = call.reply.text
      /\ (call.reply.kind = "reply" /\ call.reply.status_code = 200) =>
            call.res = IF call.reply.json = Invalid
                       THEN Raise("JSONDecodeError", "resp.json()")
                       ELSE NormalizeRemote(call.reply.json)

\* C5 witness: a 201 reply holding a well-formed caption is reported as the
\* remote error with status 201
C5_Witness ==
    /\ RemoteCall /\ call.reply.kind = "reply"
    /\ call.reply.status_code = 201 /\ call.reply.json = CaptionBody
    /\ IsRemoteError(call.res) /\ call.res.status_code = 201

\* C6: over any sequence of calls the pipeline is built at most once: the
\* counter of constructions is 0 while the global is None and 1 from then
\* on; a call that reaches the constructor while the global is None, and
\* whose construction succeeds, sets the global; once set, the global and
\* the counter never change again and every later call that invokes the
\* pipeline invokes that same instance.
C6_OneShotMemo ==
    /\ [](init_count = IF caption_pipeline = None THEN 0 ELSE 1)
    /\ [][ /\ caption_pipeline # None =>
                /\ caption_pipeline' = caption_pipeline
                /\ init_count' = init_count
                /\ call'.built = 0
                /\ call'.invoked # <<>> => call'.invoked[1].pipe = caption_pipeline
           /\ (caption_pipeline = None /\ call'.build = "ok") =>
                /\ caption_pipeline' # None
                /\ call'.built = 1
                /\ init_count' = 1
         ]_vars

\* C6 witness: a local call made when the pipeline was already built has
\* invoked the cached instance and built nothing
C6_Witness ==
    /\ LocalCall /\ call.before # None /\ call.built = 0
    /\ call.invoked # <<>> /\ call.invoked[1].pipe = caption_pipeline
    /\ init_count = 1

\* C8 (as claimed): when a generate_caption call with use_api false builds
\* the pipeline, the pipeline is bound to that call's model_name
C8_PipelineBoundToRequestedModel ==
    (Dispatched /\ ~call.use_api /\ call.built = 1) =>
        caption_pipeline.model = call.model_name

\* C9 (as claimed): a remote call whose preconditions hold (requests
\* present, a credential, a readable image) issues exactly one POST, which
\* carries the caller's max_length as a generation parameter and the
\* credential in the authorization header
C9_PostCarriesMaxLength ==
    (RemoteCall /\ have_requests /\ ~NoCredential
       /\ (call.image.kind = "path" => call.image.exists)) =>
        /\ Len(call.eff.posts) = 1
        /\ call.eff.posts[1].headers.Authorization # "Bearer "
        /\ call.eff.posts[1].params = RequestParams(call.max_length)

-----------------------------------------------------------------------------
(* The two normalizers applied to every reply shape within the bounds *)

Keys    == {"generated_text", "caption", "text", "label"}
Scalars == {PyStr(""), PyStr(" a "), None, PyInt(7)}

\* records of n fields with distinct keys, in every order
FieldSeqs(n) ==
    { kvs \in [1..n -> Keys \X Scalars] :
        \A i, k \in 1..n : i # k => kvs[i][1] # kvs[k][1] }

Dicts == { PyDict(kvs) : kvs \in UNION { FieldSeqs(n) : n \in 0..MaxFields } }

\* sequences: any first element, then scalars
Lists ==
    {PyList(<<>>)} \cup
    { PyList(<<first>> \o rest) :
        first \in Scalars \cup Dicts,
        rest \in UNION { [1..n -> Scalars] : n \in 0..(MaxItems - 1) } }

Shapes == Scalars \cup Dicts \cup Lists

InitNorm ==
    /\ have_requests = TRUE
    /\ have_transformers = TRUE
    /\ have_torch = TRUE
    /\ env_token = None
    /\ caption_pipeline = None
    /\ init_count = 0
    /\ call = NoCall
    /\ norm_in \in Shapes
    /\ norm_out = NotNormalized
    /\ pc = <<>>
    /\ req = <<>>
    /\ seen = <<>>
    /\ got = <<>>

\* lines 109-125 applied to the parsed reply norm_in
NormalizeRemoteStep ==
    /\ norm_out = NotNormalized
    /\ norm_out' = [by |-> "remote", res |-> NormalizeRemote(norm_in)]
    /\ UNCHANGED <<norm_in, envVars, caption_pipeline, init_count, call, webVars>>

\* lines 156-165 applied to the pipeline output norm_in
NormalizeLocalStep ==
    /\ norm_out = NotNormalized
    /\ norm_out' = [by |-> "local", res |-> NormalizeLocal(norm_in)]
    /\ UNCHANGED <<norm_in, envVars, caption_pipeline, init_count, call, webVars>>

NextNorm == NormalizeRemoteStep \/ NormalizeLocalStep

SpecNorm == InitNorm /\ [][NextNorm]_vars

\* the value under the first of generated_text, caption, text that d holds
PriorityValue(d) ==
    IF HasKey(d, "generated_text") THEN Lookup(d, "generated_text")
    ELSE IF HasKey(d, "caption") THEN Lookup(d, "caption")
    ELSE Lookup(d, "text")

HasPriorityKey(d) ==
    HasKey(d, "generated_text") \/ HasKey(d, "caption") \/ HasKey(d, "text")

\* the result claimed for a record: the priority value when there is one
\* (trimmed when it is a string; any successful result otherwise), else
\* the fallback text
KeyedOr(res, d, fallback) ==
    IF HasPriorityKey(d)
    THEN /\ res.ok
         /\ IsStr(PriorityValue(d)) => res.value = Strip(PriorityValue(d).s)
    ELSE res = Return(fallback)

\* C4 (as claimed): a reply that is a sequence whose first element is a
\* record yields the value of the first key present among generated_text,
\* caption, text, else the values of the first record joined; a reply that
\* is a record yields the same priority value, else the record stringified;
\* every other reply is stringified directly. Read generously: trimming and
\* single-space joining are accepted.
C4_RemotePriority ==
    norm_out.by = "remote" =>
        IF IsList(norm_in) /\ Len(norm_in.xs) > 0 /\ IsDict(norm_in.xs[1])
        THEN KeyedOr(norm_out.res, norm_in.xs[1], Strip(JoinValues(norm_in.xs[1].kvs, 1)))
        ELSE IF IsDict(norm_in)
        THEN KeyedOr(norm_out.res, norm_in, Strip(Str(norm_in)))
        ELSE norm_out.res = Return(Str(norm_in))

\* C7 (as claimed): generate_caption_local returns the trimmed generated_text
\* of the first record when the output is a non-empty sequence whose first
\* element is a record holding generated_text; else the trimmed stringified
\* first element when the output is a non-empty sequence; else the trimmed
\* stringified output. Nothing is asked when generated_text is not a string.
C7_LocalNormalization ==
    norm_out.by = "local" =>
        IF IsList(norm_in) /\ Len(norm_in.xs) > 0
        THEN IF IsDict(norm_in.xs[1]) /\ HasKey(norm_in.xs[1], "generated_text")
             THEN IsStr(Lookup(norm_in.xs[1], "generated_text")) =>
                    norm_out.res = Return(Strip(Lookup(norm_in.xs[1], "generated_text").s))
             ELSE norm_out.res = Return(Strip(Str(norm_in.xs[1])))
        ELSE norm_out.res = Return(Strip(Str(norm_in)))

-----------------------------------------------------------------------------
(* The web handler index(), one request per thread at a time. The steps of  *)
(* ensure_local_pipeline are separate: no lock guards _caption_pipeline.    *)

Threads == 1..NumThreads

UploadedPath == [kind |-> "path", exists |-> TRUE]   \* line 225: f.save(save_path)

\* line 229: the caption shown for an outcome
Shown(res) == IF res.ok THEN PyStr(res.value) ELSE PyStr("ERROR: " \o res.msg)

InitWeb ==
    /\ have_requests \in BOOLEAN
    /\ have_transformers \in BOOLEAN
    /\ have_torch \in BOOLEAN
    /\ env_token \in EnvTokens
    /\ caption_pipeline = None
    /\ init_count = 0
    /\ call = NoCall
    /\ norm_in = None
    /\ norm_out = NotNormalized
    /\ pc = [t \in Threads |-> "idle"]
    /\ req = [t \in Threads |-> [use_api |-> FALSE, caption |-> None]]
    /\ seen = [t \in Threads |-> None]
    /\ got = [t \in Threads |-> None]

webFrame == <<envVars, normVars, call>>

\* lines 219-225: a POST with a file arrives
Post(t) ==
    /\ pc[t] = "idle"
    /\ \E use_api \in BOOLEAN :
         req' = [req EXCEPT ![t] = [use_api |-> use_api, caption |-> None]]
    /\ pc' = [pc EXCEPT ![t] = "dispatch"]
    /\ seen' = [seen EXCEPT ![t] = None]
    /\ got' = [got EXCEPT ![t] = None]
    /\ UNCHANGED <<caption_pipeline, init_count, webFrame>>

\* lines 227, 176-179: generate_caption(save_path, use_api=use_api); the
\* remote backend shares no state and runs here in one step
Dispatch(t) ==
    /\ pc[t] = "dispatch"
    /\ IF req[t].use_api
       THEN \E net \in Nets :
              LET r == CaptionViaHfApi(UploadedPath, None, DefaultModel,
                                       DefaultMaxLength, net)
              IN  /\ req' = [req EXCEPT ![t].caption = Shown(r.res)]
                  /\ pc' = [pc EXCEPT ![t] = "render"]
       ELSE /\ pc' = [pc EXCEPT ![t] = "check"]
            /\ UNCHANGED req
    /\ UNCHANGED <<seen, got, caption_pipeline, init_count, webFrame>>

\* lines 133-134: if _caption_pipeline is not None: return _caption_pipeline
Check(t) ==
    /\ pc[t] = "check"
    /\ IF PipelineCached(caption_pipeline)
       THEN /\ got' = [got EXCEPT ![t] = caption_pipeline]
            /\ pc' = [pc EXCEPT ![t] = "invoke"]
       ELSE /\ pc' = [pc EXCEPT ![t] = "probe"]
            /\ UNCHANGED got
    /\ UNCHANGED <<req, seen, caption_pipeline, init_count, webFrame>>

\* lines 135-138: the libraries must be present
Probe(t) ==
    /\ pc[t] = "probe"
    /\ IF ~have_transformers
       THEN /\ req' = [req EXCEPT ![t].caption =
                         Shown(Raise("RuntimeError", "transformers not installed"))]
            /\ pc' = [pc EXCEPT ![t] = "render"]
       ELSE IF ~have_torch
       THEN /\ req' = [req EXCEPT ![t].caption =
                         Shown(Raise("RuntimeError", "torch not installed"))]
            /\ pc' = [pc EXCEPT ![t] = "render"]
       ELSE /\ pc' = [pc EXCEPT ![t] = "build"]
            /\ UNCHANGED req
    /\ UNCHANGED <<seen, got, caption_pipeline, init_count, webFrame>>

\* lines 140-147: the constructor pipeline(...) runs: it yields a new
\* instance, not yet assigned, or raises
Build(t) ==
    /\ pc[t] = "build"
    /\ \E build \in Builds :
         IF build = "ok"
         THEN /\ seen' = [seen EXCEPT ![t] = NewPipeline(DefaultModel, init_count + 1)]
              /\ init_count' = init_count + 1
              /\ pc' = [pc EXCEPT ![t] = "store"]
              /\ UNCHANGED req
         ELSE /\ req' = [req EXCEPT ![t].caption =
                           Shown(Raise("RuntimeError", "Failed to create pipeline"))]
              /\ pc' = [pc EXCEPT ![t] = "render"]
              /\ UNCHANGED <<seen, init_count>>
    /\ UNCHANGED <<got, caption_pipeline, webFrame>>

\* line 144: the assignment _caption_pipeline = <the new instance>
Store(t) ==
    /\ pc[t] = "store"
    /\ caption_pipeline' = seen[t]
    /\ pc' = [pc EXCEPT ![t] = "return"]
    /\ UNCHANGED <<req, seen, got, init_count, webFrame>>

\* line 145: return _caption_pipeline (reads the global again)
ReturnPipeline(t) ==
    /\ pc[t] = "return"
    /\ got' = [got EXCEPT ![t] = caption_pipeline]
    /\ pc' = [pc EXCEPT ![t] = "invoke"]
    /\ UNCHANGED <<req, seen, caption_pipeline, init_count, webFrame>>

\* lines 153-165: the pipeline is invoked and its output normalized
Invoke(t) ==
    /\ pc[t] = "invoke"
    /\ \E run \in Runs :
         req' = [req EXCEPT ![t].caption =
                   Shown(IF run = RunException
                         THEN Raise("RuntimeError", "Model inference failed")
                         ELSE NormalizeLocal(run))]
    /\ pc' = [pc EXCEPT ![t] = "render"]
    /\ UNCHANGED <<seen, got, caption_pipeline, init_count, webFrame>>

\* line 230: the page is rendered and the thread is free again
Render(t) ==
    /\ pc[t] = "render"
    /\ pc' = [pc EXCEPT ![t] = "idle"]
    /\ UNCHANGED <<req, seen, got, caption_pipeline, init_count, webFrame>>

NextWeb ==
    \E t \in Threads :
        \/ Post(t)
        \/ Dispatch(t)
        \/ Check(t)
        \/ Probe(t)
        \/ Build(t)
        \/ Store(t)
        \/ ReturnPipeline(t)
        \/ Invoke(t)
        \/ Render(t)

SpecWeb == InitWeb /\ [][NextWeb]_vars

\* C10 (as claimed): whatever the interleaving of the request threads, the
\* pipeline is constructed at most once, and once the global holds an
\* instance no later construction replaces it
C10_BuiltOnceNeverOverwritten ==
    /\ [](init_count <= 1)
    /\ [][caption_pipeline # None => caption_pipeline' = caption_pipeline]_vars

=============================================================================
